---- MODULE Spec2Model ----
(***************************************************************************)
(* Verification model of deep-research/scripts: data_extractor.py          *)
(* (DataExtractor), citation_manager.py (CitationManager),                 *)
(* research_manager.py (ResearchTask, ResearchManager) and                 *)
(* report_generator.py (ReportGenerator).  Each class has a specification  *)
(* of its own; the variables of the other classes stay at their initial    *)
(* values in it.                                                           *)
(*                                                                         *)
(* A Python str is modelled as a sequence of characters; a character is a  *)
(* short ASCII string.  The module is plain ASCII, so the CJK characters   *)
(* of the source are written by their pinyin names:                        *)
(*   nian = U+5E74 (year)      yue  = U+6708 (month)                       *)
(*   wan  = U+4E07 (10^4)      yi   = U+4EBF (10^8)                        *)
(*   bai  = U+767E (10^2)      qian = U+5343 (10^3)                        *)
(*   de = U+7684, shi = U+662F, wei = U+4E3A, da = U+8FBE, dao = U+5230,   *)
(*   zeng = U+589E, zhang = U+957F, xia = U+4E0B, jiang = U+964D           *)
(*   juhao = U+3002 (ideographic full stop), douhao = U+FF0C (fullwidth    *)
(*   comma), and the characters of the two sample sentences of the source  *)
(*   (zong xiao liang tu po ... liang4, shi4 chang shen tou lv ...).       *)
(* Indices are 1-based in the model; an offset reported to the caller      *)
(* (position, match.start()) is kept 0-based as in Python.                 *)
(* Confidences are in hundredths (0.9 is 90).                              *)
(***************************************************************************)
EXTENDS Integers, Sequences, FiniteSets, TLC

VARIABLES
    extracted_data, \* DataExtractor.extracted_data, the accumulator list
    content,        \* the text of the latest call
    metric_names,   \* the metric_names of the latest call (extract_key_metrics)
    ret,            \* what the latest call returned, or that it raised
    pc,             \* "ready" before the call of a run, "done" after it
    history,        \* what each call made on the DataExtractor returned, oldest first
    data_list,      \* the data_list argument of generate_data_table
    columns,        \* the columns argument of generate_data_table, or None
    citations,      \* CitationManager.citations, a dict from id to Citation
    next_id,        \* CitationManager.next_id
    references,     \* CitationManager.references, a list of ReferenceEntry
    removed,        \* the citation ids deleted by merge_sources so far
    tasks,          \* ResearchManager.tasks, a dict from task id to ResearchTask
    now,            \* the second that datetime.now() reads
    issued,         \* the tasks that create_task has returned, oldest first
    sections,       \* ReportGenerator.sections
    reports         \* the arguments and the result of each generate_report call

extractorVars == <<extracted_data, content, metric_names, history>>
renderVars == <<data_list, columns>>
citationVars == <<citations, next_id, references, removed>>
researchVars == <<tasks, now, issued>>
reportVars == <<sections, reports>>

vars == <<extractorVars, renderVars, citationVars, researchVars, reportVars, ret, pc>>

----------------------------------------------------------------------------
(* Characters and str helpers                                              *)

NL == "\n"

Digits == {"0", "1", "2", "3", "4", "5", "6", "7", "8", "9"}

\* \d of the re module, on the characters of the model
IsDigit(c) == c \in Digits

\* \s of the re module and the characters str.strip() removes
IsSpace(c) == c \in {" ", NL, "\t"}

DigitVal(c) ==
    CASE c = "0" -> 0 [] c = "1" -> 1 [] c = "2" -> 2 [] c = "3" -> 3
      [] c = "4" -> 4 [] c = "5" -> 5 [] c = "6" -> 6 [] c = "7" -> 7
      [] c = "8" -> 8 [] c = "9" -> 9

Min(a, b) == IF a <= b THEN a ELSE b

Max(a, b) == IF a >= b THEN a ELSE b

\* min(S) for a non-empty set of integers
MinOf(S) == CHOOSE x \in S : \A y \in S : x <= y

\* s[a:b] of Python with 0 <= a: the characters at 0-based offsets a .. b-1
Slice(s, a, b) ==
    IF a >= Min(b, Len(s)) THEN <<>> ELSE SubSeq(s, a + 1, Min(b, Len(s)))

\* `c in s` for a character c
HasChar(s, c) == \E i \in 1..Len(s) : s[i] = c

\* s.startswith(p, at) with a 0-based offset at
StartsWithAt(s, at, p) ==
    /\ at + Len(p) <= Len(s)
    /\ \A k \in 1..Len(p) : s[at + k] = p[k]

\* `p in s` for a str p
Contains(s, p) == \E at \in 0..Len(s) : StartsWithAt(s, at, p)

RECURSIVE Concat(_)
\* ''.join(parts)
Concat(parts) ==
    IF parts = <<>> THEN <<>> ELSE Head(parts) \o Concat(Tail(parts))

RECURSIVE SplitOn(_, _)
\* s.split(sep) for a one-character sep: always at least one piece
SplitOn(s, sep) ==
    IF ~HasChar(s, sep) THEN <<s>>
    ELSE LET i == CHOOSE k \in 1..Len(s) :
                      s[k] = sep /\ \A j \in 1..(k - 1) : s[j] # sep
         IN  <<SubSeq(s, 1, i - 1)>> \o SplitOn(SubSeq(s, i + 1, Len(s)), sep)

RECURSIVE JoinWith(_, _)
\* sep.join(parts)
JoinWith(parts, sep) ==
    IF parts = <<>> THEN <<>>
    ELSE IF Len(parts) = 1 THEN parts[1]
    ELSE parts[1] \o <<sep>> \o JoinWith(Tail(parts), sep)

RECURSIVE LStrip(_)
LStrip(s) == IF s # <<>> /\ IsSpace(Head(s)) THEN LStrip(Tail(s)) ELSE s

RECURSIVE RStrip(_)
RStrip(s) ==
    IF s # <<>> /\ IsSpace(s[Len(s)]) THEN RStrip(SubSeq(s, 1, Len(s) - 1)) ELSE s

\* s.strip()
Strip(s) == RStrip(LStrip(s))

\* [f(x) for x in s if keep(x)] building blocks
RECURSIVE SelectNonEmpty(_)
SelectNonEmpty(parts) ==
    IF parts = <<>> THEN <<>>
    ELSE (IF Head(parts) # <<>> THEN <<Head(parts)>> ELSE <<>>)
         \o SelectNonEmpty(Tail(parts))

----------------------------------------------------------------------------
(* extract_tables and _parse_table                                         *)

ConfTableMany == 90
ConfTableOne == 70

NoTable == [content_type |-> "none"]

\* [c.strip() for c in line.split('|') if c.strip()]
Cells(line) ==
    LET parts == SplitOn(line, "|")
    IN  SelectNonEmpty([i \in 1..Len(parts) |-> Strip(parts[i])])

\* RowData with a repeated header keeping the cell of its first occurrence
RowDataFirstOccurrence(headers, cells) ==
    [h \in {headers[i] : i \in 1..Len(headers)} |->
        cells[MinOf({k \in 1..Len(headers) : headers[k] = h})]]

\* the dict built by lines 115-118: one key per distinct header, a repeated
\* header keeps the cell of its last occurrence
RowData(headers, cells) ==
    [h \in {headers[i] : i \in 1..Len(headers)} |->
        LET i == CHOOSE k \in 1..Len(headers) :
                     /\ headers[k] = h
                     /\ \A j \in (k + 1)..Len(headers) : headers[j] # h
        IN  cells[i]]

RECURSIVE ParseRowsStrict(_, _)
\* ParseRows with `>` for the `>=` of line 114
ParseRowsStrict(headers, lines) ==
    IF lines = <<>> THEN <<>>
    ELSE LET cells == Cells(Head(lines))
         IN  (IF cells # <<>> /\ Len(cells) > Len(headers)
              THEN <<RowData(headers, cells)>>
              ELSE <<>>)
             \o ParseRowsStrict(headers, Tail(lines))

RECURSIVE ParseRows(_, _)
\* the loop of lines 112-119 over table_lines[1:]
ParseRows(headers, lines) ==
    IF lines = <<>> THEN <<>>
    ELSE LET cells == Cells(Head(lines))
         IN  (IF cells # <<>> /\ Len(cells) >= Len(headers)
              THEN <<RowData(headers, cells)>>
              ELSE <<>>)
             \o ParseRows(headers, Tail(lines))

TableConfidenceSwapped(n) == IF n > 1 THEN ConfTableOne ELSE ConfTableMany

\* confidence=0.9 if len(rows) > 1 else 0.7
TableConfidence(n) == IF n > 1 THEN ConfTableMany ELSE ConfTableOne

ParseTable(table_lines, source_url) ==
    IF Len(table_lines) < 2 THEN NoTable
    ELSE LET headers == Cells(table_lines[1])
             rows == ParseRows(headers, Tail(table_lines))
         IN  IF rows = <<>> THEN NoTable
             ELSE [content_type |-> "table",
                   raw_content |-> JoinWith(table_lines, NL),
                   structured_data |-> rows,
                   confidence |-> TableConfidence(Len(rows)),
                   source_url |-> source_url,
                   metadata |-> [headers |-> headers, row_count |-> Len(rows)]]

\* `if table_data: tables.append(table_data)`
AppendTable(tables, table_data) ==
    IF table_data = NoTable THEN tables ELSE Append(tables, table_data)

RECURSIVE ScanLinesNoFlush(_, _, _, _)
\* ScanLines without lines 94-97: a block that ends the text is lost
ScanLinesNoFlush(lines, current_table, tables, source_url) ==
    IF lines = <<>> THEN tables
    ELSE IF HasChar(Head(lines), "|")
    THEN ScanLinesNoFlush(Tail(lines), Append(current_table, Head(lines)), tables,
                          source_url)
    ELSE IF current_table # <<>>
    THEN ScanLinesNoFlush(Tail(lines), <<>>,
                          AppendTable(tables, ParseTable(current_table, source_url)),
                          source_url)
    ELSE ScanLinesNoFlush(Tail(lines), <<>>, tables, source_url)

RECURSIVE ScanLines(_, _, _, _)
\* the loop of lines 84-92 and the flush of lines 94-97
ScanLines(lines, current_table, tables, source_url) ==
    IF lines = <<>>
    THEN IF current_table # <<>>
         THEN AppendTable(tables, ParseTable(current_table, source_url))
         ELSE tables
    ELSE IF HasChar(Head(lines), "|")
    THEN ScanLines(Tail(lines), Append(current_table, Head(lines)), tables, source_url)
    ELSE IF current_table # <<>>
    THEN ScanLines(Tail(lines), <<>>,
                   AppendTable(tables, ParseTable(current_table, source_url)),
                   source_url)
    ELSE ScanLines(Tail(lines), <<>>, tables, source_url)

\* the list extract_tables returns
Tables(text, source_url) == ScanLines(SplitOn(text, NL), <<>>, <<>>, source_url)

----------------------------------------------------------------------------
(* extract_statistics                                                      *)

ContextWindow == 50
UnitWindow == 10
LargeNumberThreshold == 10000
NameMinLen == 2
NameMaxLen == 10
AnchorMaxLen == 10
ConfPercentage == 80
ConfLargeNumber == 75

\* a re match object: 0-based start, exclusive end, exclusive end of group 1
NoMatch == [start |-> -1, end |-> -1, g1end |-> -1]

RECURSIVE DigitRunEnd(_, _)
\* greedy \d*: the offset after the longest run of digits starting at offset i
DigitRunEnd(s, i) ==
    IF i < Len(s) /\ IsDigit(s[i + 1]) THEN DigitRunEnd(s, i + 1) ELSE i

RECURSIVE SpaceRunEnd(_, _)
\* greedy \s*
SpaceRunEnd(s, i) ==
    IF i < Len(s) /\ IsSpace(s[i + 1]) THEN SpaceRunEnd(s, i + 1) ELSE i

\* (?:\.\d+)? at offset i: the offset after it
FractionEnd(s, i) ==
    IF i + 1 < Len(s) /\ s[i + 1] = "." /\ IsDigit(s[i + 2])
    THEN DigitRunEnd(s, i + 1)
    ELSE i

\* \d+(?:\.\d+)?% at offset i: the offset after it, or -1.  A shorter \d+
\* is followed by a digit, which is neither "." nor "%", so only the longest
\* runs can match.
PercentTokenEnd(s, i) ==
    LET j == DigitRunEnd(s, i)
        k == FractionEnd(s, j)
    IN  IF j = i THEN -1
        ELSE IF k < Len(s) /\ s[k + 1] = "%" THEN k + 1
        ELSE IF j < Len(s) /\ s[j + 1] = "%" THEN j + 1
        ELSE -1

\* the alternatives of (?:...)? in PERCENTAGE_PATTERN, in order
PercentConnectives ==
    << <<"douhao">>, <<",">>, <<".">>, <<"de">>, <<"shi">>, <<"wei">>,
       <<"da", "dao">>, <<"zeng", "zhang">>, <<"xia", "jiang">> >>

\* the offset after the first alternative of alts that matches at offset i,
\* or i when none does (the group is optional)
OptionalAltEnd(s, i, alts) ==
    IF \E a \in 1..Len(alts) : StartsWithAt(s, i, alts[a])
    THEN LET a == CHOOSE x \in 1..Len(alts) :
                      /\ StartsWithAt(s, i, alts[x])
                      /\ \A y \in 1..(x - 1) : ~StartsWithAt(s, i, alts[y])
         IN  i + Len(alts[a])
    ELSE i

\* PERCENTAGE_PATTERN.match at offset i
PercentageMatchAt(s, i) ==
    LET g == PercentTokenEnd(s, i)
    IN  IF g = -1 THEN NoMatch
        ELSE [start |-> i, end |-> OptionalAltEnd(s, SpaceRunEnd(s, g), PercentConnectives),
              g1end |-> g]

RECURSIVE PercentageFinditer(_, _)
\* PERCENTAGE_PATTERN.finditer(s), scanning from offset pos
PercentageFinditer(s, pos) ==
    LET starts == {i \in pos..(Len(s) - 1) : PercentageMatchAt(s, i) # NoMatch}
    IN  IF starts = {} THEN <<>>
        ELSE LET m == PercentageMatchAt(s, MinOf(starts))
             IN  <<m>> \o PercentageFinditer(s, m.end)

\* [^\s\d<douhao>,<juhao>]
IsNameChar(c) == ~IsSpace(c) /\ ~IsDigit(c) /\ c \notin {"douhao", ",", "juhao"}

\* (?:de|shi|wei|da dao|anchor) at offset i
NameAnchorAt(s, i, anchor) ==
    \/ StartsWithAt(s, i, <<"de">>)
    \/ StartsWithAt(s, i, <<"shi">>)
    \/ StartsWithAt(s, i, <<"wei">>)
    \/ StartsWithAt(s, i, <<"da", "dao">>)
    \/ StartsWithAt(s, i, anchor)

\* group 1 can be the n characters at offset i
NameGroupAt(s, i, n, anchor) ==
    /\ i + n <= Len(s)
    /\ \A k \in 1..n : IsNameChar(s[i + k])
    /\ NameAnchorAt(s, i + n, anchor)

NoName == <<"<no match>">>

\* re.search(r'([^\s\d,..]{2,10})(?:de|shi|wei|da dao|' + re.escape(anchor)
\* + r')', context).group(1), or NoName: the leftmost start, and there the
\* longest group (greedy {2,10}) that an alternative follows
NameSearch(context, anchor) ==
    LET starts == {i \in 0..(Len(context) - 1) :
                      \E n \in NameMinLen..NameMaxLen : NameGroupAt(context, i, n, anchor)}
    IN  IF starts = {} THEN NoName
        ELSE LET i == MinOf(starts)
                 n == CHOOSE x \in NameMinLen..NameMaxLen :
                          /\ NameGroupAt(context, i, x, anchor)
                          /\ \A y \in (x + 1)..NameMaxLen : ~NameGroupAt(context, i, y, anchor)
             IN  Slice(context, i, i + n)

StrValue(s) == [type |-> "str", str |-> s]

\* lines 141-143 and 168-170: the context of a match
ContextOf(s, m) ==
    Slice(s, Max(0, m.start - ContextWindow), Min(Len(s), m.end + ContextWindow))

\* lines 139-156: the statistic of one percentage match
PercentageStat(s, m) ==
    LET percentage == Slice(s, m.start, m.g1end)
        name_match == NameSearch(ContextOf(s, m), percentage)
    IN  [name |-> IF name_match = NoName THEN <<>> ELSE Strip(name_match),
         value |-> StrValue(percentage),
         unit |-> <<>>,
         confidence |-> ConfPercentage]

PercentageStats(s) ==
    LET ms == PercentageFinditer(s, 0)
    IN  [i \in 1..Len(ms) |-> PercentageStat(s, ms[i])]

RECURSIVE CommaGroupsEnd(_, _)
\* greedy (?:,\d{3})* at offset i
CommaGroupsEnd(s, i) ==
    IF /\ i + 4 <= Len(s)
       /\ s[i + 1] = ","
       /\ IsDigit(s[i + 2]) /\ IsDigit(s[i + 3]) /\ IsDigit(s[i + 4])
    THEN CommaGroupsEnd(s, i + 4)
    ELSE i

\* %? at offset i
OptionalPercentEnd(s, i) == IF i < Len(s) /\ s[i + 1] = "%" THEN i + 1 ELSE i

\* NUMBER_PATTERN.match at offset i: everything after \d{1,3} is optional,
\* so the greedy choice at each step is the match
NumberMatchAt(s, i) ==
    LET p == IF i < Len(s) /\ s[i + 1] \in {"-", "+"} THEN i + 1 ELSE i
        d == Min(DigitRunEnd(s, p), p + 3)
        e == SpaceRunEnd(s, OptionalPercentEnd(s, FractionEnd(s, CommaGroupsEnd(s, d))))
    IN  IF d = p THEN NoMatch ELSE [start |-> i, end |-> e, g1end |-> e]

RECURSIVE NumberFinditer(_, _)
\* NUMBER_PATTERN.finditer(s), scanning from offset pos
NumberFinditer(s, pos) ==
    LET starts == {i \in pos..(Len(s) - 1) : NumberMatchAt(s, i) # NoMatch}
    IN  IF starts = {} THEN <<>>
        ELSE LET m == NumberMatchAt(s, MinOf(starts))
             IN  <<m>> \o NumberFinditer(s, m.end)

RECURSIVE RemoveChar(_, _)
\* s.replace(c, '')
RemoveChar(s, c) ==
    IF s = <<>> THEN <<>>
    ELSE (IF Head(s) = c THEN <<>> ELSE <<Head(s)>>) \o RemoveChar(Tail(s), c)

RECURSIVE DigitsValue(_)
\* the value of a run of decimal digits
DigitsValue(ds) ==
    IF ds = <<>> THEN 0 ELSE 10 * DigitsValue(SubSeq(ds, 1, Len(ds) - 1)) + DigitVal(ds[Len(ds)])

RECURSIVE DropTrailingZeros(_)
DropTrailingZeros(ds) ==
    IF ds # <<>> /\ ds[Len(ds)] = "0" THEN DropTrailingZeros(SubSeq(ds, 1, Len(ds) - 1))
    ELSE ds

\* float(t) for t = [-+]? digits (. digits)?: the sign, the integer part
\* and the fraction digits without trailing zeros (700 and 700.0 are equal).
\* Exact, where a Python float rounds to 53 bits.
ParseFloat(t) ==
    LET signed == t # <<>> /\ t[1] \in {"-", "+"}
        body == IF signed THEN Tail(t) ELSE t
        j == DigitRunEnd(body, 0)
    IN  [type |-> "float",
         neg |-> signed /\ t[1] = "-",
         int |-> DigitsValue(Slice(body, 0, j)),
         frac |-> DropTrailingZeros(Slice(body, j + 1, Len(body)))]

FloatAtLeastIgnoringThreshold(v, n) == ~v.neg

\* v >= n for a parsed float v and a natural number n >= 1
FloatAtLeast(v, n) == ~v.neg /\ v.int >= n

\* UnitOf without the branch of lines 176-177
UnitOfWithoutWan(window) ==
    IF HasChar(window, "yi") THEN <<"yi", "yuan">>
    ELSE IF Contains(window, <<"bai", "wan">>) THEN <<"bai", "wan">>
    ELSE IF Contains(window, <<"qian", "wan">>) THEN <<"qian", "wan">>
    ELSE <<>>

\* lines 173-181: the unit, from a window of the context
UnitOf(window) ==
    IF HasChar(window, "yi") THEN <<"yi", "yuan">>
    ELSE IF HasChar(window, "wan") THEN <<"wan", "yuan">>
    ELSE IF Contains(window, <<"bai", "wan">>) THEN <<"bai", "wan">>
    ELSE IF Contains(window, <<"qian", "wan">>) THEN <<"qian", "wan">>
    ELSE <<>>

\* NumberStat without the `if name_match` of line 185: a number without a
\* name gives a statistic with an empty name
NumberStatUnnamed(s, m) ==
    LET num_str == Strip(Slice(s, m.start, m.g1end))
        num_value == ParseFloat(RemoveChar(num_str, ","))
        context == ContextOf(s, m)
        unit == UnitOf(Slice(context, m.end, m.end + UnitWindow))
        name_match == NameSearch(context, Slice(num_str, 0, AnchorMaxLen))
    IN  IF HasChar(num_str, "%") THEN <<>>
        ELSE IF ~FloatAtLeast(num_value, LargeNumberThreshold) THEN <<>>
        ELSE << [name |-> IF name_match = NoName THEN <<>> ELSE Strip(name_match),
                 value |-> num_value,
                 unit |-> unit,
                 confidence |-> ConfLargeNumber] >>

\* lines 160-194: the statistics (none or one) of one number match
NumberStat(s, m) ==
    LET num_str == Strip(Slice(s, m.start, m.g1end))
        num_value == ParseFloat(RemoveChar(num_str, ","))
        context == ContextOf(s, m)
        unit == UnitOf(Slice(context, m.end, m.end + UnitWindow))
        name_match == NameSearch(context, Slice(num_str, 0, AnchorMaxLen))
    IN  IF HasChar(num_str, "%") THEN <<>>
        ELSE IF ~FloatAtLeast(num_value, LargeNumberThreshold) THEN <<>>
        ELSE IF name_match = NoName THEN <<>>
        ELSE << [name |-> Strip(name_match),
                 value |-> num_value,
                 unit |-> unit,
                 confidence |-> ConfLargeNumber] >>

NumberStats(s) ==
    LET ms == NumberFinditer(s, 0)
    IN  Concat([i \in 1..Len(ms) |-> NumberStat(s, ms[i])])

\* the two passes in the other order
StatisticsNumbersFirst(s) == NumberStats(s) \o PercentageStats(s)

\* the list extract_statistics returns
Statistics(s) == PercentageStats(s) \o NumberStats(s)

----------------------------------------------------------------------------
(* extract_key_metrics                                                     *)

ForwardGap == 50
BackwardGap == 30
ConfForward == 85
ConfBackward == 80

\* what a call hands back: the returned list, or an exception that escaped
Returned(op, value) == [op |-> op, raised |-> FALSE, value |-> value]

Raised(op) == [op |-> op, raised |-> TRUE, value |-> <<>>]

\* [^\n<juhao>]
IsGapChar(c) == c # NL /\ c # "juhao"

\* [^\n<juhao>]{k} can match the k characters at offset i
GapAt(s, i, k) ==
    /\ i + k <= Len(s)
    /\ \A j \in 1..k : IsGapChar(s[i + j])

\* greedy \d+(?:\.\d+)?%? at offset i (a digit is at i): the offset after it
ValueTokenEnd(s, i) == OptionalPercentEnd(s, FractionEnd(s, DigitRunEnd(s, i)))

\* The metric name is pasted into the pattern unescaped (lines 204, 216), so
\* re.search compiles it as a regular expression.  The metric names of the
\* model are made of characters that are literals in a pattern, and of "(":
\* a "(" opens a group that nothing closes, and re.compile raises re.error
\* ("missing ), unterminated subpattern").
PatternCompiles(metric) == ~HasChar(metric, "(")

\* metric[^\n<juhao>]{0,50}?(\d+...) can match at offset i
ForwardAt(s, metric, i) ==
    /\ StartsWithAt(s, i, metric)
    /\ \E k \in 0..ForwardGap :
          /\ GapAt(s, i + Len(metric), k)
          /\ i + Len(metric) + k < Len(s)
          /\ IsDigit(s[i + Len(metric) + k + 1])

\* re.search(forward pattern, content): the leftmost start and there the
\* shortest gap (lazy {0,50}?), then the greedy value token
ForwardSearch(s, metric) ==
    LET starts == {i \in 0..Len(s) : ForwardAt(s, metric, i)}
    IN  IF starts = {} THEN NoMatch
        ELSE LET i == MinOf(starts)
                 a == i + Len(metric)
                 k == CHOOSE x \in 0..ForwardGap :
                          /\ GapAt(s, a, x) /\ a + x < Len(s) /\ IsDigit(s[a + x + 1])
                          /\ \A y \in 0..(x - 1) : ~IsDigit(s[a + y + 1])
             IN  [start |-> i, end |-> ValueTokenEnd(s, a + k), g1start |-> a + k,
                  g1end |-> ValueTokenEnd(s, a + k)]

\* (\d+...)[^\n<juhao>]{0,30}?metric can match at offset i.  The metric
\* names of the model hold no digit, "." or "%", so a value token shorter
\* than the greedy one only lengthens the gap and never adds a match.
BackwardAt(s, metric, i) ==
    /\ i < Len(s)
    /\ IsDigit(s[i + 1])
    /\ \E k \in 0..BackwardGap :
          /\ GapAt(s, ValueTokenEnd(s, i), k)
          /\ StartsWithAt(s, ValueTokenEnd(s, i) + k, metric)

\* re.search(reverse pattern, content)
BackwardSearch(s, metric) ==
    LET starts == {i \in 0..Len(s) : BackwardAt(s, metric, i)}
    IN  IF starts = {} THEN NoMatch
        ELSE LET i == MinOf(starts)
             IN  [start |-> i, end |-> -1, g1start |-> i, g1end |-> ValueTokenEnd(s, i)]

MetricRecord(s, metric, m, confidence) ==
    [metric |-> metric,
     value |-> Slice(s, m.g1start, m.g1end),
     position |-> m.start,
     confidence |-> confidence]

\* lines 204-224: the records of one metric
MetricRecords(s, metric) ==
    LET match == ForwardSearch(s, metric)
        reverse_match == BackwardSearch(s, metric)
    IN  (IF match.start # -1
         THEN <<MetricRecord(s, metric, match, ConfForward)>> ELSE <<>>)
        \o (IF reverse_match.start # -1
            THEN <<MetricRecord(s, metric, reverse_match, ConfBackward)>> ELSE <<>>)

RECURSIVE KeyMetricsLoop(_, _, _)
\* the loop of line 202; an re.error of a metric ends the call
KeyMetricsLoop(s, names, results) ==
    IF names = <<>> THEN Returned("extract_key_metrics", results)
    ELSE IF ~PatternCompiles(Head(names)) THEN Raised("extract_key_metrics")
    ELSE KeyMetricsLoop(s, Tail(names), results \o MetricRecords(s, Head(names)))

\* what extract_key_metrics(content, metric_names) does
KeyMetrics(s, names) == KeyMetricsLoop(s, names, <<>>)

----------------------------------------------------------------------------
(* extract_timeline                                                        *)

TimelineBefore == 30
TimelineAfter == 70
DescriptionMax == 60

\* \d{n} at offset i
DigitsAt(s, i, n) ==
    /\ i + n <= Len(s)
    /\ \A k \in 1..n : IsDigit(s[i + k])

CharAt(s, i, c) == i < Len(s) /\ s[i + 1] = c

\* \d{1,2} at offset i followed by one of the characters nexts: the offset
\* of that character, or -1 (two digits are tried first, then one)
OneOrTwoDigitsThen(s, i, nexts) ==
    IF DigitsAt(s, i, 2) /\ \E c \in nexts : CharAt(s, i + 2, c) THEN i + 2
    ELSE IF DigitsAt(s, i, 1) /\ \E c \in nexts : CharAt(s, i + 1, c) THEN i + 1
    ELSE -1

\* (\d{4}<nian>\d{1,2}<yue>) at offset i: the offset after it, or -1
YearMonthEnd(s, i) ==
    IF DigitsAt(s, i, 4) /\ CharAt(s, i + 4, "nian")
                         /\ OneOrTwoDigitsThen(s, i + 5, {"yue"}) # -1
    THEN OneOrTwoDigitsThen(s, i + 5, {"yue"}) + 1
    ELSE -1

\* (\d{4}<nian>) at offset i
YearEnd(s, i) ==
    IF DigitsAt(s, i, 4) /\ CharAt(s, i + 4, "nian") THEN i + 5 ELSE -1

\* (\d{4}[-/]\d{1,2}[-/]\d{1,2}) at offset i
IsoDateEnd(s, i) ==
    LET sep2 == OneOrTwoDigitsThen(s, i + 5, {"-", "/"})
    IN  IF /\ DigitsAt(s, i, 4)
           /\ (CharAt(s, i + 4, "-") \/ CharAt(s, i + 4, "/"))
           /\ sep2 # -1
           /\ DigitsAt(s, sep2 + 1, 1)
        THEN IF DigitsAt(s, sep2 + 1, 2) THEN sep2 + 3 ELSE sep2 + 2
        ELSE -1

\* (Q[1-4]\s*\d{4}) at offset i
QuarterEnd(s, i) ==
    LET d == SpaceRunEnd(s, i + 2)
    IN  IF /\ CharAt(s, i, "Q")
           /\ i + 1 < Len(s) /\ s[i + 2] \in {"1", "2", "3", "4"}
           /\ DigitsAt(s, d, 4)
        THEN d + 4
        ELSE -1

\* time_patterns[p] matched at offset i
TimePatternEnd(p, s, i) ==
    CASE p = 1 -> YearMonthEnd(s, i)
      [] p = 2 -> YearEnd(s, i)
      [] p = 3 -> IsoDateEnd(s, i)
      [] p = 4 -> QuarterEnd(s, i)

TimePatterns == <<1, 2, 3, 4>>

RECURSIVE TimeFinditer(_, _, _)
\* re.finditer(time_patterns[p], s), scanning from offset pos
TimeFinditer(p, s, pos) ==
    LET starts == {i \in pos..(Len(s) - 1) : TimePatternEnd(p, s, i) # -1}
    IN  IF starts = {} THEN <<>>
        ELSE LET i == MinOf(starts)
                 e == TimePatternEnd(p, s, i)
             IN  <<[start |-> i, end |-> e, g1end |-> e]>> \o TimeFinditer(p, s, e)

\* ord(c) for the characters that can stand in a date token
CodePoint(c) ==
    IF IsDigit(c) THEN 48 + DigitVal(c)
    ELSE CASE c = " " -> 32 [] c = NL -> 10 [] c = "\t" -> 9
           [] c = "-" -> 45 [] c = "/" -> 47 [] c = "Q" -> 81
           [] c = "yue" -> 26376 [] c = "nian" -> 24180

\* The set [...] that sre_parse builds from the characters of a date
\* pasted between brackets (line 248): `a-b` is a range, and a range whose
\* end is below its start is an re.error ("bad character range").
\* ok is FALSE when compiling raises; chars are the members, among TextChars.
RECURSIVE ParseCharClass(_, _)
ParseCharClass(date, members) ==
    IF date = <<>> THEN [ok |-> TRUE, chars |-> members]
    ELSE IF Len(date) >= 2 /\ date[2] = "-"
    THEN IF Len(date) = 2
         THEN [ok |-> TRUE, chars |-> members \cup {date[1], "-"}]
         ELSE IF CodePoint(date[3]) < CodePoint(date[1])
         THEN [ok |-> FALSE, chars |-> {}]
         ELSE ParseCharClass(SubSeq(date, 4, Len(date)),
                  members \cup {c \in Digits \cup {" ", NL, "-", "/", "Q", "nian", "yue"} :
                                   /\ CodePoint(date[1]) <= CodePoint(c)
                                   /\ CodePoint(c) <= CodePoint(date[3])})
    ELSE ParseCharClass(Tail(date), members \cup {date[1]})

\* greedy [^\n<juhao>]{0,n} at offset i: the offset after it
GapRunEnd(s, i, n) ==
    i + (CHOOSE k \in 0..n : GapAt(s, i, k) /\ (k = n \/ ~GapAt(s, i, k + 1)))

\* re.search(rf'[{date}][^\n<juhao>]{{0,60}}', context).group().strip(), for a
\* class that compiled: the leftmost member of the class and the run after
\* it.  The date itself lies in the context, so there is always a match.
DescriptionOf(context, chars) ==
    LET j == CHOOSE x \in 0..(Len(context) - 1) :
                 /\ context[x + 1] \in chars
                 /\ \A y \in 0..(x - 1) : context[y + 1] \notin chars
    IN  Strip(Slice(context, j, GapRunEnd(context, j + 1, DescriptionMax)))

\* lines 243-254: the event of one match (the class of its date compiles)
EventOf(s, m) ==
    LET date == Slice(s, m.start, m.g1end)
        context == Slice(s, Max(0, m.start - TimelineBefore),
                         Min(Len(s), m.end + TimelineAfter))
    IN  [date |-> date,
         description |-> DescriptionOf(context, ParseCharClass(date, {}).chars),
         position |-> m.start]

\* the matches of all patterns, in the order the loops of lines 240-241
\* visit them
AllTimeMatches(s) ==
    Concat([p \in 1..Len(TimePatterns) |-> TimeFinditer(TimePatterns[p], s, 0)])

RECURSIVE InsertByPosition(_, _)
\* e put after the events of sorted that are not behind it: a stable insert
InsertByPosition(sorted, e) ==
    IF sorted = <<>> THEN <<e>>
    ELSE IF sorted[Len(sorted)].position <= e.position THEN Append(sorted, e)
    ELSE Append(InsertByPosition(SubSeq(sorted, 1, Len(sorted) - 1), e),
                sorted[Len(sorted)])

\* no sort at all: the events stay in pattern order
SortByPositionSkipped(events) == events

RECURSIVE SortByPosition(_)
\* events.sort(key=lambda x: x["position"]): list.sort is stable
SortByPosition(events) ==
    IF events = <<>> THEN <<>>
    ELSE InsertByPosition(SortByPosition(SubSeq(events, 1, Len(events) - 1)),
                          events[Len(events)])

\* the loop of lines 258-263 without the test of line 261
UniqueByDateKeepsAll(events, seen, unique_events) == unique_events \o events

RECURSIVE UniqueByDate(_, _, _)
\* the loop of lines 258-263
UniqueByDate(events, seen, unique_events) ==
    IF events = <<>> THEN unique_events
    ELSE IF Head(events).date \notin seen
    THEN UniqueByDate(Tail(events), seen \cup {Head(events).date},
                      Append(unique_events, Head(events)))
    ELSE UniqueByDate(Tail(events), seen, unique_events)

\* what extract_timeline(content) does
Timeline(s) ==
    LET ms == AllTimeMatches(s)
    IN  IF \E i \in 1..Len(ms) : ~ParseCharClass(Slice(s, ms[i].start, ms[i].g1end), {}).ok
        THEN Raised("extract_timeline")
        ELSE Returned("extract_timeline",
                 UniqueByDate(SortByPosition([i \in 1..Len(ms) |-> EventOf(s, ms[i])]),
                              {}, <<>>))

----------------------------------------------------------------------------
(* Inputs                                                                  *)

MaxLines == 5
MaxStatTokens == 3
MaxMetricTokens == 2
MaxMetrics == 2
MaxTimelineTokens == 3

\* all lists of at most n elements of S
SeqsUpTo(S, n) == UNION {[1..k -> S] : k \in 0..n}

\* Lines of a text given to extract_tables: plain text, two padded cells,
\* one cell between pipes, a lone pipe
TableLines ==
    { <<"x">>,
      <<" ", "a", " ", "|", "b">>,
      <<"|", "c", "|">>,
      <<"|">> }

\* a text with a block of three lines and a block of two lines
SampleTwoTables ==
    << <<" ", "a", " ", "|", "b">>, <<" ", "a", " ", "|", "b">>,
       <<" ", "a", " ", "|", "b">>, <<"x">>,
       <<"|", "c", "|">>, <<"|", "c", "|">> >>

\* a block whose header line names one column twice
SampleRepeatedHeader == << <<"c", "|", "c">>, <<" ", "a", " ", "|", "b">> >>

TableTexts ==
    {JoinWith(ls, NL) :
        ls \in SeqsUpTo(TableLines, MaxLines) \cup {SampleTwoTables, SampleRepeatedHeader}}

\* the two sample sentences of the statistics pass (lines 326-327 of the
\* source's own test text)
SampleSales ==
    <<"zong", "xiao", "liang", "tu", "po", " ", "7", "0", "0", "wan", "liang4">>

SamplePenetration ==
    <<"shi4", "chang", "shen", "tou", "lv", "da", "dao", " ", "3", "5", ".", "2", "%">>

\* the shape of SampleSales with a number above the threshold right after
\* the connective: "xiao liang da dao 12,345 wan liang4"
SampleLargeSales ==
    <<"xiao", "liang", "da", "dao", "1", "2", ",", "3", "4", "5", "wan", "liang4">>

StatTokens ==
    { <<"xiao", "liang">>, <<"da", "dao">>, <<" ">>, <<"-">>,
      <<"1", "2", ",", "3", "4", "5">>, <<"7", "0", "0">>,
      <<"3", "5", ".", "2", "%">>, <<"wan">> }

\* SampleLargeSales after a line of other text, so that its number starts
\* more than ContextWindow characters into the content
SampleLateLargeSales == [i \in 1..(ContextWindow + 1) |-> "x"] \o SampleLargeSales

StatTexts ==
    {Concat(ts) : ts \in SeqsUpTo(StatTokens, MaxStatTokens)}
        \cup {SampleSales, SamplePenetration, SampleLargeSales, SampleLateLargeSales}

\* the sample of the key metric search: the metric xiao liang (sales) on
\* "xiao liang da dao 120 wan liang4"
SampleMetric == <<"xiao", "liang">>

SampleMetricText ==
    <<"xiao", "liang", "da", "dao", "1", "2", "0", "wan", "liang4">>

MetricTokens ==
    { <<"xiao", "liang">>, <<"da", "dao">>, <<"1", "2", "0">>, <<"7", ".", "5", "%">>,
      <<"juhao">> }

\* a value before and after the metric: "7.5% xiao liang 120"
SampleMetricBothWays ==
    <<"7", ".", "5", "%", "xiao", "liang", "1", "2", "0">>

MetricTexts ==
    {Concat(ts) : ts \in SeqsUpTo(MetricTokens, MaxMetricTokens)}
        \cup {SampleMetricText, SampleMetricBothWays}

\* metric names: two plain names, and one with a "("
MetricNames == { <<"xiao", "liang">>, <<"da", "dao">>, <<"(">> }

MetricLists == SeqsUpTo(MetricNames, MaxMetrics)

TimelineTokens ==
    { <<"2", "0", "2", "4", "nian">>, <<"3", "yue">>, <<"x">>,
      <<"2", "0", "2", "4", "-", "0", "3", "-", "0", "1">>,
      <<"2", "0", "2", "3", "/", "4", "-", "5">>,
      <<"Q", "1", " ", "2", "0", "2", "4">> }

TimelineTexts == {Concat(ts) : ts \in SeqsUpTo(TimelineTokens, MaxTimelineTokens)}

----------------------------------------------------------------------------
(* The state machine: one DataExtractor and the calls made on it           *)

NoCall == [op |-> "none", raised |-> FALSE, value |-> <<>>]

\* an optional argument: left out (None), or given with a value
None == [given |-> FALSE, value |-> <<>>]

Given(x) == [given |-> TRUE, value |-> x]

\* DataExtractor.__init__
NewExtractor ==
    /\ extracted_data = <<>>
    /\ content = <<>>
    /\ metric_names = <<>>
    /\ history = <<>>

\* no generate_data_table call at hand
NoRender == data_list = <<>> /\ columns = None

\* CitationManager.__init__
NewCitationManager ==
    /\ citations = <<>>
    /\ next_id = 1
    /\ references = <<>>
    /\ removed = {}

\* ResearchManager.__init__
NewResearchManager ==
    /\ tasks = <<>>
    /\ now = 0
    /\ issued = <<>>

\* ReportGenerator.__init__
NewReportGenerator == sections = <<>> /\ reports = <<>>

\* DataExtractor.__init__, and no call made yet
Init ==
    /\ NewExtractor
    /\ NoRender
    /\ NewCitationManager
    /\ NewResearchManager
    /\ NewReportGenerator
    /\ ret = NoCall
    /\ pc = "ready"

\* extract_tables(c): lines 80-100, source_url left at its default
CallExtractTables(c) ==
    LET tables == Tables(c, "")
    IN  /\ extracted_data' = extracted_data \o tables
        /\ ret' = Returned("extract_tables", tables)
        /\ history' = Append(history, ret')
        /\ content' = c
        /\ metric_names' = <<>>

\* extract_statistics(c): lines 135-196
CallExtractStatistics(c) ==
    /\ ret' = Returned("extract_statistics", Statistics(c))
    /\ history' = Append(history, ret')
    /\ content' = c
    /\ metric_names' = <<>>
    /\ UNCHANGED extracted_data

\* extract_key_metrics(c, names): lines 200-226
CallExtractKeyMetrics(c, names) ==
    /\ ret' = KeyMetrics(c, names)
    /\ history' = Append(history, ret')
    /\ content' = c
    /\ metric_names' = names
    /\ UNCHANGED extracted_data

\* extract_timeline(c): lines 230-265
CallExtractTimeline(c) ==
    /\ ret' = Timeline(c)
    /\ history' = Append(history, ret')
    /\ content' = c
    /\ metric_names' = <<>>
    /\ UNCHANGED extracted_data

ExtractTables ==
    /\ pc = "ready" /\ pc' = "done"
    /\ \E c \in TableTexts : CallExtractTables(c)
    /\ UNCHANGED <<renderVars, citationVars, researchVars, reportVars>>

ExtractStatistics ==
    /\ pc = "ready" /\ pc' = "done"
    /\ \E c \in StatTexts : CallExtractStatistics(c)
    /\ UNCHANGED <<renderVars, citationVars, researchVars, reportVars>>

ExtractKeyMetrics ==
    /\ pc = "ready" /\ pc' = "done"
    /\ \E c \in MetricTexts, names \in MetricLists : CallExtractKeyMetrics(c, names)
    /\ UNCHANGED <<renderVars, citationVars, researchVars, reportVars>>

ExtractTimeline ==
    /\ pc = "ready" /\ pc' = "done"
    /\ \E c \in TimelineTexts : CallExtractTimeline(c)
    /\ UNCHANGED <<renderVars, citationVars, researchVars, reportVars>>

Next ==
    \/ ExtractTables
    \/ ExtractStatistics
    \/ ExtractKeyMetrics
    \/ ExtractTimeline

\* a fresh extractor and one extraction call on it, any operation on any
\* input of the bounded sets
Spec == Init /\ [][Next]_vars

----------------------------------------------------------------------------
(* One DataExtractor over several calls                                    *)

MaxCalls == 3

\* a text with one table of one row
SampleOneTable == JoinWith(<< <<"|", "c", "|">>, <<"|", "c", "|">> >>, NL)

LifecycleTableTexts == {JoinWith(SampleTwoTables, NL), SampleOneTable, <<"x">>}

LifecycleStatTexts == {SamplePenetration, SampleLargeSales}

LifecycleTimelineTexts == {<<"2", "0", "2", "4", "nian", "3", "yue">>}

\* another call can be made on the extractor
CanCall == Len(history) < MaxCalls

AgainExtractTables ==
    /\ CanCall
    /\ \E c \in LifecycleTableTexts : CallExtractTables(c)
    /\ UNCHANGED <<renderVars, citationVars, researchVars, reportVars, pc>>

AgainExtractStatistics ==
    /\ CanCall
    /\ \E c \in LifecycleStatTexts : CallExtractStatistics(c)
    /\ UNCHANGED <<renderVars, citationVars, researchVars, reportVars, pc>>

AgainExtractKeyMetrics ==
    /\ CanCall
    /\ CallExtractKeyMetrics(SampleMetricText, <<SampleMetric>>)
    /\ UNCHANGED <<renderVars, citationVars, researchVars, reportVars, pc>>

AgainExtractTimeline ==
    /\ CanCall
    /\ \E c \in LifecycleTimelineTexts : CallExtractTimeline(c)
    /\ UNCHANGED <<renderVars, citationVars, researchVars, reportVars, pc>>

NextLifecycle ==
    \/ AgainExtractTables
    \/ AgainExtractStatistics
    \/ AgainExtractKeyMetrics
    \/ AgainExtractTimeline

\* a fresh extractor and up to MaxCalls extraction calls on it
SpecLifecycle == Init /\ [][NextLifecycle]_vars

----------------------------------------------------------------------------
(* generate_data_table                                                     *)

\* A dict is the list of its items in insertion order, each [key, value]
\* with a key of its own.  A value is a str or an int.
StrVal(s) == [type |-> "str", s |-> s]
IntVal(n) == [type |-> "int", n |-> n]

RECURSIVE IntDigits(_)
\* the decimal digits of a natural number
IntDigits(n) ==
    LET d == CHOOSE c \in Digits : DigitVal(c) = n % 10
    IN  IF n < 10 THEN <<d>> ELSE Append(IntDigits(n \div 10), d)

\* str(v)
Str(v) == IF v.type = "str" THEN v.s ELSE IntDigits(v.n)

\* list(item.keys())
Keys(item) == [i \in 1..Len(item) |-> item[i].key]

\* item.get(col) with its default of None, for comparison
ItemGetNone(item, col, default) ==
    IF \E i \in 1..Len(item) : item[i].key = col
    THEN item[CHOOSE i \in 1..Len(item) : item[i].key = col].value
    ELSE StrVal(<<"N", "o", "n", "e">>)

\* item.get(col, default)
ItemGet(item, col, default) ==
    IF \E i \in 1..Len(item) : item[i].key = col
    THEN item[CHOOSE i \in 1..Len(item) : item[i].key = col].value
    ELSE default

RECURSIVE JoinStr(_, _)
\* sep.join(parts) for a str sep
JoinStr(parts, sep) ==
    IF parts = <<>> THEN <<>>
    ELSE IF Len(parts) = 1 THEN parts[1]
    ELSE parts[1] \o sep \o JoinStr(Tail(parts), sep)

CellSeparator == <<" ", "|", " ">>

\* "| " + " | ".join(cells) + " |"
TableRow(cells) == <<"|", " ">> \o JoinStr(cells, CellSeparator) \o <<" ", "|">>

DashCell == <<"-", "-", "-">>

\* columns = list(data_list[0].keys()), line 273
DefaultColumns(rows) == Keys(rows[1])

\* what generate_data_table(rows, cols) returns
GenerateDataTable(rows, cols) ==
    IF rows = <<>> THEN <<>>
    ELSE
        LET cs == IF ~cols.given THEN DefaultColumns(rows) ELSE cols.value
            header == TableRow(cs) \o <<NL>>
            separator == TableRow([i \in 1..Len(cs) |-> DashCell]) \o <<NL>>
            row(item) == TableRow([i \in 1..Len(cs) |-> Str(ItemGet(item, cs[i], StrVal(<<>>)))])
        IN  header \o separator \o JoinWith([r \in 1..Len(rows) |-> row(rows[r])], NL)

MaxRows == 2
MaxColumns == 2

ColumnNames == {<<"a">>, <<"b">>}

CellValues == {StrVal(<<"x">>), IntVal(12)}

\* the dicts over ColumnNames: every order of every subset of the keys
Dicts ==
    {d \in SeqsUpTo([key : ColumnNames, value : CellValues], Cardinality(ColumnNames)) :
        \A i, j \in 1..Len(d) : i # j => d[i].key # d[j].key}

DataLists == SeqsUpTo(Dicts, MaxRows)

ColumnChoices == {None} \cup {Given(cs) : cs \in SeqsUpTo(ColumnNames, MaxColumns)}

\* no call made yet, arguments chosen
InitRender ==
    /\ NewExtractor
    /\ data_list \in DataLists
    /\ columns \in ColumnChoices
    /\ NewCitationManager
    /\ NewResearchManager
    /\ NewReportGenerator
    /\ ret = NoCall
    /\ pc = "ready"

CallGenerateDataTable ==
    /\ pc = "ready" /\ pc' = "done"
    /\ ret' = Returned("generate_data_table", GenerateDataTable(data_list, columns))
    /\ UNCHANGED <<extractorVars, renderVars, citationVars, researchVars, reportVars>>

NextRender == CallGenerateDataTable

\* one generate_data_table call on any arguments of the bounded sets
SpecRender == InitRender /\ [][NextRender]_vars

----------------------------------------------------------------------------
(* citation_manager.py: CitationManager                                    *)
(* The module is modelled as loaded.  As shipped, line 14 uses Enum, which *)
(* the module never imports, so that importing it raises NameError.        *)

MaxSources == 2
MaxReferences == 1

Urls == {"u1"}

\* a dict with the entry k: v added or replaced
DictSet(d, k, v) == [x \in DOMAIN d \cup {k} |-> IF x = k THEN v ELSE d[x]]

\* a dict without the key k
DictDel(d, k) == [x \in DOMAIN d \ {k} |-> d[x]]

\* `x in list`
InList(x, list) == \E i \in 1..Len(list) : list[i] = x

\* the Citation of lines 104-114, by its id and url
Citation(id, url) == [id |-> id, url |-> url]

\* the ReferenceEntry of lines 125-129, by its id and citations
ReferenceEntry(id, citation_ids) == [id |-> id, citations |-> citation_ids]

\* the record of a call on the manager: its arguments, what it returned, and
\* of the state it was made in, the stored ids, next_id and the references
CallRecord(op, args, value) ==
    [op |-> op, raised |-> FALSE, args |-> args, value |-> value,
     before |-> [ids |-> DOMAIN citations, next_id |-> next_id,
                 references |-> references]]

\* an id taken from the number of stored citations, as add_reference takes
\* the id of an entry from the number of entries
NewIdByCount == Cardinality(DOMAIN citations) + 1

\* the id of the next citation: id=self.next_id, line 105
NewId == next_id

\* add_source(..., url, ...): lines 104-117
AddSource(url) ==
    LET citation == Citation(NewId, url)
    IN  /\ citations' = DictSet(citations, NewId, citation)
        /\ next_id' = next_id + 1
        /\ ret' = CallRecord("add_source", <<url>>, citation)
        /\ UNCHANGED <<references, removed>>

\* add_reference(content, citation_ids): lines 125-131
AddReference(citation_ids) ==
    LET entry == ReferenceEntry(Len(references) + 1, citation_ids)
    IN  /\ references' = Append(references, entry)
        /\ ret' = CallRecord("add_reference", <<citation_ids>>, entry)
        /\ UNCHANGED <<citations, next_id, removed>>

\* lines 150-152: the body of the loop over self.references
UpdateReference(ref, sid, primary_id) ==
    IF InList(sid, ref.citations) /\ ~InList(primary_id, ref.citations)
    THEN [ref EXCEPT !.citations = Append(@, primary_id)]
    ELSE ref

RECURSIVE MergeLoop(_, _, _)
\* the loop of lines 146-154 over the secondary ids still to do, on the
\* state st = [citations, references, removed]
MergeLoop(st, primary_id, sids) ==
    IF sids = <<>> THEN st
    ELSE LET sid == Head(sids)
         IN  IF sid \in DOMAIN st.citations
             THEN MergeLoop(
                      [citations |-> DictDel(st.citations, sid),
                       references |-> [r \in 1..Len(st.references) |->
                                          UpdateReference(st.references[r], sid, primary_id)],
                       removed |-> st.removed \cup {sid}],
                      primary_id, Tail(sids))
             ELSE MergeLoop(st, primary_id, Tail(sids))

\* merge_sources(primary_id, secondary_ids): lines 142-154
MergeSources(primary_id, secondary_ids) ==
    LET st == IF primary_id \notin DOMAIN citations
              THEN [citations |-> citations, references |-> references, removed |-> removed]
              ELSE MergeLoop([citations |-> citations, references |-> references,
                              removed |-> removed], primary_id, secondary_ids)
    IN  /\ citations' = st.citations
        /\ references' = st.references
        /\ removed' = st.removed
        /\ ret' = CallRecord("merge_sources", <<primary_id, secondary_ids>>, <<>>)
        /\ UNCHANGED next_id

SourceIds == 1..MaxSources

\* lists of one or two ids, a repeated id included
IdLists == {<<a>> : a \in SourceIds} \cup {<<a, b>> : a, b \in SourceIds}

DoAddSource ==
    /\ next_id <= MaxSources
    /\ \E url \in Urls : AddSource(url)
    /\ UNCHANGED <<extractorVars, renderVars, researchVars, reportVars, pc>>

DoAddReference ==
    /\ Len(references) < MaxReferences
    /\ \E ids \in {<<>>} \cup IdLists : AddReference(ids)
    /\ UNCHANGED <<extractorVars, renderVars, researchVars, reportVars, pc>>

DoMergeSources ==
    /\ \E primary_id \in SourceIds, secondary_ids \in IdLists :
          MergeSources(primary_id, secondary_ids)
    /\ UNCHANGED <<extractorVars, renderVars, researchVars, reportVars, pc>>

NextCitations ==
    \/ DoAddSource
    \/ DoAddReference
    \/ DoMergeSources

\* a fresh CitationManager and any calls of add_source, add_reference and
\* merge_sources on it
SpecCitations == Init /\ [][NextCitations]_vars

----------------------------------------------------------------------------
(* research_manager.py: ResearchTask and ResearchManager                   *)
(* A ResearchTask object is an entry of the list issued, in the order of   *)
(* creation; the dict tasks holds, for a task id, the index of the object  *)
(* stored under it.  A task id "task_<YYYYmmdd_HHMMSS>" is modelled by the  *)
(* second it is formatted from.  progress is the exact fraction            *)
(* (num / den) * 100.                                                      *)

MaxTasks == 3
MaxSeconds == 2
MaxSubQuestions == 2

\* TaskStatus, lines 21-27
TaskStatus == {"PENDING", "IN_PROGRESS", "COMPLETED", "VERIFIED", "FAILED"}

\* progress: float = 0.0, and line 82
ZeroProgress == [num |-> 0, den |-> 1]

\* SubQuestion(id=..., ...), lines 70-75: status defaults to PENDING
SubQuestion(id) == [id |-> id, status |-> "PENDING"]

\* ResearchTask(id=task_id, original_question=question), line 111
ResearchTask(task_id) == [id |-> task_id, sub_questions |-> <<>>, progress |-> ZeroProgress]

\* task.add_sub_question(...): lines 70-77; progress is left as it is
WithSubQuestion(task) ==
    [task EXCEPT !.sub_questions = Append(@, SubQuestion(Len(@) + 1))]

\* task.update_progress(): lines 81-85
UpdateProgress(task) ==
    IF task.sub_questions = <<>> THEN [task EXCEPT !.progress = ZeroProgress]
    ELSE [task EXCEPT !.progress =
             [num |-> Cardinality({i \in 1..Len(task.sub_questions) :
                                      task.sub_questions[i].status = "VERIFIED"}),
              den |-> Len(task.sub_questions)]]

\* the loop of lines 142-146 on one task: the first sub-question with the
\* id gets the status and the progress is updated; none, and nothing changes
MarkIn(task, sub_q_id, status) ==
    LET hits == {i \in 1..Len(task.sub_questions) : task.sub_questions[i].id = sub_q_id}
    IN  IF hits = {} THEN task
        ELSE UpdateProgress([task EXCEPT !.sub_questions[MinOf(hits)].status = status])

\* the number of sub-questions of the template of decompose_question
TemplateSize == 6

RECURSIVE WithSubQuestions(_, _)
\* the loop of lines 133-134
WithSubQuestions(task, n) ==
    IF n = 0 THEN task ELSE WithSubQuestions(WithSubQuestion(task), n - 1)

\* task_id = f"task_{datetime.now().strftime('%Y%m%d_%H%M%S')}", line 110
NewTaskId == now

\* create_task(question) and what decompose_question does with its task:
\* the new object is stored under its id, in place of any object there
StoreNewTask(op, task) ==
    /\ issued' = Append(issued, task)
    /\ tasks' = DictSet(tasks, task.id, Len(issued) + 1)
    /\ ret' = Returned(op, Len(issued) + 1)
    /\ UNCHANGED now

\* create_task(question): lines 110-113
CreateTask == StoreNewTask("create_task", ResearchTask(NewTaskId))

\* decompose_question(question): lines 121-136
DecomposeQuestion ==
    StoreNewTask("decompose_question", WithSubQuestions(ResearchTask(NewTaskId), TemplateSize))

\* task.add_sub_question(...) on the object o
AddSubQuestion(o) ==
    /\ issued' = [issued EXCEPT ![o] = WithSubQuestion(@)]
    /\ ret' = Returned("add_sub_question", Len(issued[o].sub_questions) + 1)
    /\ UNCHANGED <<tasks, now>>

\* mark_sub_question_status(task_id, sub_q_id, status): lines 140-146
MarkSubQuestionStatus(task_id, sub_q_id, status) ==
    /\ issued' = IF task_id \in DOMAIN tasks
                 THEN [issued EXCEPT ![tasks[task_id]] = MarkIn(@, sub_q_id, status)]
                 ELSE issued
    /\ ret' = Returned("mark_sub_question_status", <<task_id, sub_q_id, status>>)
    /\ UNCHANGED <<tasks, now>>

\* a second passes on the clock that datetime.now() reads
Tick ==
    /\ now < MaxSeconds
    /\ now' = now + 1
    /\ UNCHANGED <<tasks, issued, ret>>
    /\ UNCHANGED <<extractorVars, renderVars, citationVars, reportVars, pc>>

DoCreateTask ==
    /\ Len(issued) < MaxTasks
    /\ CreateTask
    /\ UNCHANGED <<extractorVars, renderVars, citationVars, reportVars, pc>>

DoDecomposeQuestion ==
    /\ Len(issued) < MaxTasks
    /\ DecomposeQuestion
    /\ UNCHANGED <<extractorVars, renderVars, citationVars, reportVars, pc>>

NextResearch ==
    \/ Tick
    \/ DoCreateTask
    \/ DoDecomposeQuestion

\* a fresh ResearchManager, the clock, and up to MaxTasks calls of
\* create_task and decompose_question
SpecResearch == Init /\ [][NextResearch]_vars

\* the first task of a manager
FirstCreateTask ==
    /\ issued = <<>>
    /\ CreateTask
    /\ UNCHANGED <<extractorVars, renderVars, citationVars, reportVars, pc>>

FirstDecomposeQuestion ==
    /\ issued = <<>>
    /\ DecomposeQuestion
    /\ UNCHANGED <<extractorVars, renderVars, citationVars, reportVars, pc>>

DoAddSubQuestion ==
    /\ \E o \in 1..Len(issued) :
          /\ Len(issued[o].sub_questions) < MaxSubQuestions
          /\ AddSubQuestion(o)
    /\ UNCHANGED <<extractorVars, renderVars, citationVars, reportVars, pc>>

DoMarkSubQuestionStatus ==
    /\ \E task_id \in 0..MaxSeconds, sub_q_id \in 1..(MaxSubQuestions + 1), status \in TaskStatus :
          MarkSubQuestionStatus(task_id, sub_q_id, status)
    /\ UNCHANGED <<extractorVars, renderVars, citationVars, reportVars, pc>>

NextProgress ==
    \/ FirstCreateTask
    \/ FirstDecomposeQuestion
    \/ DoAddSubQuestion
    \/ DoMarkSubQuestionStatus

\* a fresh ResearchManager, one task made on it, and any calls of
\* add_sub_question and mark_sub_question_status on the task
SpecProgress == Init /\ [][NextProgress]_vars

----------------------------------------------------------------------------
(* report_generator.py: ReportGenerator                                    *)
(* A fixed text of a template (a title, a label of the header table) is    *)
(* one character of the model, written by its pinyin name.                 *)

MaxReports == 2

\* ReportSection(title=title, level=level, content=content), line 88
ReportSection(title, level, text) == [title |-> title, level |-> level, content |-> text]

\* ReportSection.to_markdown, lines 39-45, of a section without subsections
ToMarkdown(section) ==
    [i \in 1..section.level |-> "#"] \o <<" ">> \o section.title \o <<NL, NL>>
        \o (IF section.content # <<>> THEN section.content \o <<NL, NL>> ELSE <<>>)

\* create_header(metadata): lines 70-84
CreateHeader(metadata) ==
    <<"#", " ">> \o metadata.title \o <<NL, NL>>
    \o <<"#", "#", " ", "yan jiu gai shu", NL, NL>>
    \o <<"|", " ", "xiang mu", " ", "|", " ", "nei rong", " ", "|", NL>>
    \o <<"|", "-", "-", "-", "-", "-", "-", "|", "-", "-", "-", "-", "-", "-", "|", NL>>
    \o <<"|", " ", "yan jiu zhu ti", " ", "|", " ">> \o metadata.topic \o <<" ", "|", NL>>
    \o <<"|", " ", "yan jiu shi jian", " ", "|", " ">> \o metadata.created_at \o <<" ", "|", NL>>
    \o <<"|", " ", "yan jiu fan wei", " ", "|", " ">>
        \o (IF metadata.scope # <<>> THEN metadata.scope ELSE <<"wei ding yi">>)
        \o <<" ", "|", NL>>
    \o <<"|", " ", "shu ju lai yuan", " ", "|", " ">> \o IntDigits(metadata.data_source_count)
        \o <<" ", "ge", " ", "|", NL>>
    \o <<"|", " ", "zhi liang ping fen", " ", "|", " ">>
        \o (IF metadata.quality_score.given THEN metadata.quality_score.value
            ELSE <<"wei ping gu">>)
        \o <<" ", "|", NL>>
    \o <<NL, "-", "-", "-", NL>>

\* add_section(title, level, content) on the list secs: lines 88-89
AddSection(secs, title, level, text) == Append(secs, ReportSection(title, level, text))

\* self.sections[-1].content = content
SetLastContent(secs, text) == [secs EXCEPT ![Len(secs)].content = text]

\* add_conclusion_section(conclusions): lines 94-96
AddConclusionSection(secs, conclusions) ==
    SetLastContent(AddSection(secs, <<"he xin jie lun">>, 2, <<>>),
                   JoinWith([i \in 1..Len(conclusions) |-> <<"-", " ">> \o conclusions[i]], NL))

\* add_analysis_section(analysis): lines 100-102
AddAnalysisSection(secs, analysis) ==
    SetLastContent(AddSection(secs, <<"shen du fen xi">>, 2, <<>>), analysis)

\* the text built by lines 106-111
DataTableText(headers, rows, caption) ==
    <<NL, "*", "*">> \o caption \o <<"*", "*", NL, NL>>
    \o TableRow(headers) \o <<NL>>
    \o TableRow([i \in 1..Len(headers) |-> DashCell]) \o <<NL>>
    \o Concat([r \in 1..Len(rows) |-> TableRow(rows[r]) \o <<NL>>])
    \o <<NL>>

\* add_data_table(headers, rows, caption): lines 106-115
AddDataTable(secs, dt) ==
    IF secs = <<>> THEN secs
    ELSE [secs EXCEPT ![Len(secs)].content = @ \o DataTableText(dt.headers, dt.rows, dt.caption)]

RECURSIVE AddDataTables(_, _)
\* the loop of lines 162-167
AddDataTables(secs, data_tables) ==
    IF data_tables = <<>> THEN secs
    ELSE AddDataTables(AddDataTable(secs, Head(data_tables)), Tail(data_tables))

\* the line of a reference, line 124
ReferenceLine(ref) ==
    IntDigits(ref.id) \o <<".", " ", "[">> \o ref.source_name \o <<"]", "(">> \o ref.url
        \o <<")", " ", "-", " ">> \o ref.description \o <<" ", "[">> \o ref.reliability
        \o <<"]">>

\* add_reference_section(references): lines 119-125
AddReferenceSection(secs, refs) ==
    SetLastContent(AddSection(secs, <<"can kao lai yuan">>, 2, <<>>),
                   JoinWith([i \in 1..Len(refs) |-> ReferenceLine(refs[i])], NL))

\* add_quality_assessment(assessment): lines 129-134; the assessment is
\* the list of its items
AddQualityAssessment(secs, assessment) ==
    SetLastContent(
        AddSection(secs, <<"zhi liang ping gu">>, 2, <<>>),
        JoinWith(<< <<"|", " ", "ping gu wei du", " ", "|", " ", "ping fen", " ", "|">>,
                    <<"|", "-", "-", "-", "-", "-", "-", "-", "-", "-", "|",
                      "-", "-", "-", "-", "-", "-", "|">> >>
                 \o [i \in 1..Len(assessment) |->
                        <<"|", " ">> \o assessment[i].key \o <<" ", "|", " ">>
                            \o assessment[i].value \o <<" ", "|">>],
                 NL))

\* lines 152-175: self.sections after the call, a being its arguments;
\* the call starts from the list as it finds it, nothing empties it
SectionsAfter(a) ==
    LET s0 == sections
        s1 == IF a.conclusions # <<>> THEN AddConclusionSection(s0, a.conclusions) ELSE s0
        s2 == IF a.analysis # <<>> THEN AddAnalysisSection(s1, a.analysis) ELSE s1
        s3 == IF a.data_tables # <<>>
              THEN AddDataTables(AddSection(s2, <<"shu ju zhi cheng">>, 2, <<>>), a.data_tables)
              ELSE s2
        s4 == IF a.quality_assessment # <<>>
              THEN AddQualityAssessment(s3, a.quality_assessment) ELSE s3
    IN  IF a.references # <<>> THEN AddReferenceSection(s4, a.references) ELSE s4

\* generate_report(metadata, conclusions, analysis, data_tables,
\* references, quality_assessment): lines 146-181.  An argument left out
\* (None) and an empty one take the same branches, and are both <<>> here.
GenerateReport(a) ==
    LET secs == SectionsAfter(a)
        report == JoinWith(<<CreateHeader(a.metadata)>>
                               \o [i \in 1..Len(secs) |-> ToMarkdown(secs[i])], NL)
    IN  /\ sections' = secs
        /\ reports' = Append(reports, [args |-> a, report |-> report])
        /\ ret' = Returned("generate_report", report)

SampleMetadata ==
    [title |-> <<"T">>, topic |-> <<"t">>, created_at |-> <<"2024-03-01 10:00">>,
     scope |-> <<>>, data_source_count |-> 2, quality_score |-> Given(<<"A">>)]

SampleDataTable ==
    [headers |-> << <<"h">> >>, rows |-> << << <<"v">> >> >>, caption |-> <<"c">>]

SampleReference ==
    [id |-> 1, source_name |-> <<"s">>, url |-> <<"u">>, description |-> <<"d">>,
     reliability |-> <<"A">>]

\* the arguments of a call: each part left out or given
ReportArgs ==
    [metadata : {SampleMetadata},
     conclusions : {<<>>, << <<"c", "1">>, <<"c", "2">> >>},
     analysis : {<<>>, <<"a">>},
     data_tables : {<<>>, <<SampleDataTable>>},
     quality_assessment : {<<>>, <<[key |-> <<"k">>, value |-> <<"A">>]>>},
     references : {<<>>, <<SampleReference>>}]

DoGenerateReport ==
    /\ Len(reports) < MaxReports
    /\ \E a \in ReportArgs : GenerateReport(a)
    /\ UNCHANGED <<extractorVars, renderVars, citationVars, researchVars, pc>>

NextReports == DoGenerateReport

\* a fresh ReportGenerator and up to MaxReports calls of generate_report
SpecReports == Init /\ [][NextReports]_vars

----------------------------------------------------------------------------
(* Claims                                                                  *)

\* C1: no extraction operation raises, whatever the text and the metric
\* names; the worst outcome of a call is an empty result.
C1_NoOperationRaises == ~ret.raised

\* the lines of the text of the latest call
ContentLines == SplitOn(content, NL)

HasPipe(line) == HasChar(line, "|")

\* the maximal runs <<i, j>> of consecutive lines that contain a pipe
PipeRuns(lines) ==
    {r \in (1..Len(lines)) \X (1..Len(lines)) :
        /\ r[1] <= r[2]
        /\ \A k \in r[1]..r[2] : HasPipe(lines[k])
        /\ (r[1] = 1 \/ ~HasPipe(lines[r[1] - 1]))
        /\ (r[2] = Len(lines) \/ ~HasPipe(lines[r[2] + 1]))}

RunLength(r) == r[2] - r[1] + 1

RunText(lines, r) == JoinWith(SubSeq(lines, r[1], r[2]), NL)

\* a block of at least two lines that all have the same number, at least
\* one, of non-empty cells
WellFormedRun(lines, r) ==
    /\ RunLength(r) >= 2
    /\ Len(Cells(lines[r[1]])) >= 1
    /\ \A k \in r[1]..r[2] : Len(Cells(lines[k])) = Len(Cells(lines[r[1]]))

\* C2: a well-formed block of N >= 2 lines (every line with the same number
\* of non-empty cells) gives exactly one table record, with N-1 rows and
\* confidence 0.9 when N-1 > 1 and 0.7 when N-1 = 1: the records with the
\* block's text are as many as the blocks with that text, and a text whose
\* only block it is returns one record.
C2_WellFormedBlockOneTable ==
    ret.op = "extract_tables" =>
        \A r \in PipeRuns(ContentLines) :
            WellFormedRun(ContentLines, r) =>
                LET recs == {t \in 1..Len(ret.value) :
                                ret.value[t].raw_content = RunText(ContentLines, r)}
                    same == {q \in PipeRuns(ContentLines) :
                                RunText(ContentLines, q) = RunText(ContentLines, r)}
                IN  /\ Cardinality(recs) = Cardinality(same)
                    /\ PipeRuns(ContentLines) = {r} => Len(ret.value) = 1
                    /\ \A t \in recs :
                          /\ Len(ret.value[t].structured_data) = RunLength(r) - 1
                          /\ ret.value[t].confidence =
                                (IF RunLength(r) - 1 > 1 THEN 90 ELSE 70)

\* C2's case: a text with text lines around one well-formed block of three
\* or more lines
C2_Witness ==
    /\ ret.op = "extract_tables"
    /\ Len(ret.value) = 1
    /\ \E r \in PipeRuns(ContentLines) :
          /\ WellFormedRun(ContentLines, r)
          /\ RunLength(r) >= 3
          /\ r[1] > 1

\* a later line of the run is a valid data row for the run's first line
HasValidRow(lines, r) ==
    \E k \in (r[1] + 1)..r[2] :
        /\ Cells(lines[k]) # <<>>
        /\ Len(Cells(lines[k])) >= Len(Cells(lines[r[1]]))

\* the runs that give a table
YieldingRuns(lines) ==
    {r \in PipeRuns(lines) : RunLength(r) >= 2 /\ HasValidRow(lines, r)}

\* C3: one record per maximal run of pipe lines that has at least two lines
\* and at least one valid data row, in text order, and nothing else; a text
\* without a pipe gives the empty list.
C3_OneTablePerRun ==
    ret.op = "extract_tables" =>
        LET runs == YieldingRuns(ContentLines)
        IN  /\ Len(ret.value) = Cardinality(runs)
            /\ \A r \in runs :
                  ret.value[Cardinality({q \in runs : q[1] <= r[1]})].raw_content
                      = RunText(ContentLines, r)
            /\ ~HasChar(content, "|") => ret.value = <<>>

\* C3's case: two tables from two runs of different text, with a run that
\* gives nothing between or around them
C3_Witness ==
    /\ ret.op = "extract_tables"
    /\ Len(ret.value) = 2
    /\ ret.value[1].raw_content # ret.value[2].raw_content
    /\ Cardinality(PipeRuns(ContentLines)) = 2

\* the statistics of the large-number pass carry a float, those of the
\* percentage pass the matched text
IsNumeric(stat) == stat.value.type = "float"

\* C4: no statistic returned by extract_statistics carries a numeric value
\* below 10,000; every statistic of the large-number pass (confidence 0.75)
\* has a value of at least 10000.
C4_NoSmallNumber ==
    ret.op = "extract_statistics" =>
        \A k \in 1..Len(ret.value) :
            /\ IsNumeric(ret.value[k]) =>
                   ~ret.value[k].value.neg /\ ret.value[k].value.int >= 10000
            /\ ret.value[k].confidence = 75 => IsNumeric(ret.value[k])

\* C4's case: a text with a number below 10,000 and one above, of which a
\* statistic is returned
C4_Witness ==
    /\ ret.op = "extract_statistics"
    /\ Contains(content, <<"7", "0", "0">>)
    /\ \E k \in 1..Len(ret.value) : IsNumeric(ret.value[k])

\* C5 as stated: the sample sales sentence yields a statistic with value
\* 700.0 and unit wan yuan.
C5_SampleSalesYields700 ==
    (ret.op = "extract_statistics" /\ content = SampleSales) =>
        \E k \in 1..Len(ret.value) :
            /\ ret.value[k].value = [type |-> "float", neg |-> FALSE, int |-> 700,
                                     frac |-> <<>>]
            /\ ret.value[k].unit = <<"wan", "yuan">>

\* C5, amended: the sample sales sentence yields no statistic at all (700
\* is below 10,000); the same shape with 12,345 right after the connective
\* yields exactly one statistic, with value 12345.0, unit wan yuan and
\* confidence 0.75.
C5_SampleSalesYieldsNothing ==
    /\ (ret.op = "extract_statistics" /\ content = SampleSales) => ret.value = <<>>
    /\ (ret.op = "extract_statistics" /\ content = SampleLargeSales) =>
           /\ Len(ret.value) = 1
           /\ ret.value[1].value = [type |-> "float", neg |-> FALSE, int |-> 12345,
                                    frac |-> <<>>]
           /\ ret.value[1].unit = <<"wan", "yuan">>
           /\ ret.value[1].confidence = 75

\* C5's case: extract_statistics has run on the sample sales sentence
C5_Witness == ret.op = "extract_statistics" /\ content = SampleSales

\* the text of a match
MatchText(s, m) == Slice(s, m.start, m.g1end)

\* the offsets at which a pattern of extract_timeline matched the token
OffsetsOf(date) ==
    LET ms == AllTimeMatches(content)
    IN  {ms[i].start : i \in {j \in 1..Len(ms) : MatchText(content, ms[j]) = date}}

\* C6: the list extract_timeline returns is ordered by non-decreasing
\* offset, holds each date token at most once, and the event of a date
\* token is the one with the smallest offset among all matches of that
\* token by any of the four patterns; every matched token has its event.
C6_TimelineSortedUnique ==
    (ret.op = "extract_timeline" /\ ~ret.raised) =>
        /\ \A i, j \in 1..Len(ret.value) :
              /\ i < j => ret.value[i].position <= ret.value[j].position
              /\ i # j => ret.value[i].date # ret.value[j].date
        /\ \A i \in 1..Len(ret.value) :
              /\ OffsetsOf(ret.value[i].date) # {}
              /\ ret.value[i].position = MinOf(OffsetsOf(ret.value[i].date))
        /\ LET ms == AllTimeMatches(content)
           IN  \A k \in 1..Len(ms) :
                   \E i \in 1..Len(ret.value) :
                       ret.value[i].date = MatchText(content, ms[k])

\* C6's case: a token matched twice, and a match of a later pattern that
\* lies before a match of an earlier pattern
C6_Witness ==
    /\ ret.op = "extract_timeline" /\ ~ret.raised
    /\ Len(ret.value) >= 2
    /\ Len(AllTimeMatches(content)) > Len(ret.value)
    /\ LET ms == AllTimeMatches(content)
       IN  \E a, b \in 1..Len(ms) : a < b /\ ms[b].start < ms[a].start

YearMonthToken == <<"2", "0", "2", "4", "nian", "3", "yue">>

YearToken == <<"2", "0", "2", "4", "nian">>

\* the events of the returned list that carry the date
EventsOf(date) == {i \in 1..Len(ret.value) : ret.value[i].date = date}

\* the offset of the first occurrence of a token in the text
FirstOffset(token) ==
    MinOf({at \in 0..Len(content) : StartsWithAt(content, at, token)})

\* C7 as stated: on a text with both the year-month token and the year
\* token, the returned list keeps only the first-encountered of the two.
C7_OnlyFirstTokenKept ==
    (ret.op = "extract_timeline" /\ ~ret.raised /\ Contains(content, YearMonthToken)) =>
        Cardinality(EventsOf(YearMonthToken) \cup EventsOf(YearToken)) = 1

\* C7, amended: on such a text each of the two tokens is in the returned
\* list exactly once, at the offset of its first occurrence (for the year
\* token that may be the start of a year-month token); they are different
\* date tokens, so deduplication removes neither, only later repeats.
C7_EachTokenOnceAtFirstOffset ==
    (ret.op = "extract_timeline" /\ ~ret.raised /\ Contains(content, YearMonthToken)) =>
        /\ Cardinality(EventsOf(YearMonthToken)) = 1
        /\ Cardinality(EventsOf(YearToken)) = 1
        /\ \A i \in EventsOf(YearMonthToken) :
              ret.value[i].position = FirstOffset(YearMonthToken)
        /\ \A i \in EventsOf(YearToken) :
              ret.value[i].position = FirstOffset(YearToken)

\* C7's case: the year-month token and, elsewhere, the year token again
C7_Witness ==
    /\ ret.op = "extract_timeline" /\ ~ret.raised
    /\ Contains(content, YearMonthToken)
    /\ \E at \in 0..Len(content) :
          /\ StartsWithAt(content, at, YearToken)
          /\ ~StartsWithAt(content, at, YearMonthToken)

\* the name occurs in the text and a digit follows within 50 characters
\* that hold no newline and no full stop
NameThenValue(name) ==
    \E at \in 0..Len(content), k \in 0..50 :
        /\ StartsWithAt(content, at, name)
        /\ at + Len(name) + k < Len(content)
        /\ \A j \in 1..k : content[at + Len(name) + j] \notin {NL, "juhao"}
        /\ IsDigit(content[at + Len(name) + k + 1])

\* a numeric token is followed by the name within 30 such characters
ValueThenName(name) ==
    \E at \in 0..Len(content), k \in 0..30 :
        /\ at < Len(content) /\ IsDigit(content[at + 1])
        /\ \E e \in (at + 1)..Len(content) :
              /\ \A j \in (at + 1)..e : IsDigit(content[j]) \/ content[j] \in {".", "%"}
              /\ e + k + Len(name) <= Len(content)
              /\ \A j \in 1..k : content[e + j] \notin {NL, "juhao"}
              /\ StartsWithAt(content, e + k, name)

\* the metric and the confidence of the records a list of metrics is to
\* give, in input order, the forward record of a metric before its backward
\* record
ExpectedMetricRecords(names) ==
    Concat([j \in 1..Len(names) |->
        (IF NameThenValue(names[j])
         THEN <<[metric |-> names[j], confidence |-> 85]>> ELSE <<>>)
        \o (IF ValueThenName(names[j])
            THEN <<[metric |-> names[j], confidence |-> 80]>> ELSE <<>>)])

\* C8: extract_key_metrics goes through the metric names in input order and
\* emits, per metric, a forward record (confidence 0.85) exactly when the
\* name is followed within 50 characters by a numeric token, and a backward
\* record (0.8) exactly when a numeric token is followed within 30
\* characters by the name; a record carries the metric, the value text and
\* the offset of the match start; the sample metric on the sample text
\* gives a forward record with value 120.
C8_KeyMetricRecords ==
    ret.op = "extract_key_metrics" =>
        LET expected == ExpectedMetricRecords(metric_names)
        IN  /\ ~ret.raised
            /\ Len(ret.value) = Len(expected)
            /\ \A t \in 1..Len(ret.value) :
                  /\ ret.value[t].metric = expected[t].metric
                  /\ ret.value[t].confidence = expected[t].confidence
                  /\ ret.value[t].value # <<>>
                  /\ IsDigit(ret.value[t].value[1])
                  /\ Contains(content, ret.value[t].value)
                  /\ ret.value[t].confidence = 85 =>
                         StartsWithAt(content, ret.value[t].position, ret.value[t].metric)
                  /\ ret.value[t].confidence = 80 =>
                         StartsWithAt(content, ret.value[t].position, ret.value[t].value)
            /\ (content = SampleMetricText /\ metric_names = <<SampleMetric>>) =>
                   ret.value = <<[metric |-> SampleMetric, value |-> <<"1", "2", "0">>,
                                  position |-> 0, confidence |-> 85]>>

\* C8 on the calls whose metric names all compile: the records are the
\* expected ones (C8 fails only where a metric name raises)
C8_HoldsWhenNothingRaises ==
    (ret.op = "extract_key_metrics" /\ \A j \in 1..Len(metric_names) :
                                          ~HasChar(metric_names[j], "(")) =>
        C8_KeyMetricRecords

\* the 1-based indices of the percent signs that follow a digit
PercentSigns ==
    {p \in 2..Len(content) : content[p] = "%" /\ IsDigit(content[p - 1])}

\* digits, or digits "." digits
IsPercentBody(t) ==
    /\ t # <<>>
    /\ IsDigit(t[1]) /\ IsDigit(t[Len(t)])
    /\ \A i \in 1..Len(t) : IsDigit(t[i]) \/ t[i] = "."
    /\ Cardinality({i \in 1..Len(t) : t[i] = "."}) <= 1

\* the percentage text that ends with the percent sign at index p
PercentTextAt(p) ==
    SubSeq(content,
           MinOf({a \in 1..(p - 1) : IsPercentBody(SubSeq(content, a, p - 1))}), p)

\* C9: the percentage pass gives exactly one statistic per percentage of the
\* text, in text order and before every large-number statistic, each with
\* the matched text (digits, optional decimal, %) as value and confidence
\* 0.8; the sample penetration sentence gives value 35.2%, confidence 0.8
\* and a name that contains shen tou lv.
C9_PercentagePass ==
    ret.op = "extract_statistics" =>
        /\ Len(ret.value) >= Cardinality(PercentSigns)
        /\ \A p \in PercentSigns :
              LET k == Cardinality({q \in PercentSigns : q <= p})
              IN  /\ ret.value[k].value = [type |-> "str", str |-> PercentTextAt(p)]
                  /\ ret.value[k].confidence = 80
        /\ \A k \in (Cardinality(PercentSigns) + 1)..Len(ret.value) :
              IsNumeric(ret.value[k]) /\ ret.value[k].confidence = 75
        /\ content = SamplePenetration =>
              /\ Len(ret.value) = 1
              /\ ret.value[1].value =
                     [type |-> "str", str |-> <<"3", "5", ".", "2", "%">>]
              /\ ret.value[1].confidence = 80
              /\ Contains(ret.value[1].name, <<"shen", "tou", "lv">>)

\* C9's case: a percentage that stands after a large number in the text,
\* and a statistic of each
C9_Witness ==
    /\ ret.op = "extract_statistics"
    /\ Len(ret.value) >= 2
    /\ ~IsNumeric(ret.value[1])
    /\ IsNumeric(ret.value[Len(ret.value)])
    /\ \E p \in PercentSigns :
          \E at \in 0..(p - 1) : StartsWithAt(content, at, <<"1", "2", ",", "3", "4", "5">>)

\* C10: every record of a table, statistic or key-metric result has a
\* confidence in [0,1] (0..100 hundredths), and a table with more than one
\* data row has a strictly higher confidence than a table with exactly one.
C10_ConfidenceRange ==
    ret.op \in {"extract_tables", "extract_statistics", "extract_key_metrics"} =>
        /\ \A t \in 1..Len(ret.value) :
              0 <= ret.value[t].confidence /\ ret.value[t].confidence <= 100
        /\ ret.op = "extract_tables" =>
              \A t, u \in 1..Len(ret.value) :
                  (Len(ret.value[t].structured_data) > 1
                       /\ Len(ret.value[u].structured_data) = 1) =>
                      ret.value[t].confidence > ret.value[u].confidence

\* C10's case: one call returns a table of several rows and a table of one
C10_Witness ==
    /\ ret.op = "extract_tables"
    /\ \E t, u \in 1..Len(ret.value) :
          /\ Len(ret.value[t].structured_data) > 1
          /\ Len(ret.value[u].structured_data) = 1

----------------------------------------------------------------------------
(* Claims about the extractor over several calls, and about rendering      *)

\* the results of the extract_tables calls made so far, oldest first
TableCalls == SelectSeq(history, LAMBDA h : h.op = "extract_tables")

\* the records of the latest extract_tables call, none before any such call
LatestTables ==
    IF TableCalls = <<>> THEN <<>> ELSE TableCalls[Len(TableCalls)].value

RECURSIVE Flatten(_)
Flatten(seqs) == IF seqs = <<>> THEN <<>> ELSE Head(seqs).value \o Flatten(Tail(seqs))

\* C11: after any sequence of extraction calls on one instance, the
\* accumulator extracted_data holds only the records of a single pass: no
\* record of a call earlier than the latest extract_tables call.
C11_AccumulatorHoldsOnePass == extracted_data = LatestTables

\* what the accumulator does hold: the records of every extract_tables call
\* made on the instance, oldest first
C11_AccumulatorHoldsEveryPass == extracted_data = Flatten(TableCalls)

\* records already returned and accumulated are never changed or dropped by
\* a later call: the accumulator only grows at its end
C11_AccumulatedRecordsKept ==
    [][/\ Len(extracted_data') >= Len(extracted_data)
       /\ SubSeq(extracted_data', 1, Len(extracted_data)) = extracted_data]_vars

\* the text of a row of a pipe table with the given cells: a pipe, then
\* each cell between spaces and followed by a pipe
RowText(cells) ==
    IF cells = <<>> THEN <<"|", " ", " ", "|">>
    ELSE <<"|">> \o Concat([i \in 1..Len(cells) |-> <<" ">> \o cells[i] \o <<" ", "|">>])

HasKey(item, col) == \E i \in 1..Len(item) : item[i].key = col

ValueOf(item, col) == (CHOOSE e \in {item[i] : i \in 1..Len(item)} : e.key = col).value

\* the text of a value: a str as it is, an int in decimal
TextOf(v) == IF v.type = "str" THEN v.s ELSE IF v.n = 12 THEN <<"1", "2">> ELSE <<"?">>

\* the columns of a rendering: the explicit list, or the first row's keys
RenderColumns ==
    IF columns.given THEN columns.value ELSE [i \in 1..Len(data_list[1]) |-> data_list[1][i].key]

ExpectedLines ==
    LET cs == RenderColumns
    IN  << RowText(cs), RowText([i \in 1..Len(cs) |-> <<"-", "-", "-">>]) >>
          \o [r \in 1..Len(data_list) |->
                 RowText([i \in 1..Len(cs) |->
                             IF HasKey(data_list[r], cs[i])
                             THEN TextOf(ValueOf(data_list[r], cs[i]))
                             ELSE <<>>])]

\* C12: generate_data_table returns the empty string for an empty list;
\* otherwise its lines are a header row of the columns (the explicit list,
\* or the first row's keys in order), one separator row with one --- cell
\* per column, then one row per record in input order, with an empty cell
\* where a record lacks a column.
C12_RenderedTable ==
    ret.op = "generate_data_table" =>
        IF data_list = <<>> THEN ret.value = <<>>
        ELSE SplitOn(ret.value, NL) = ExpectedLines

\* C12's case: two records rendered under the first record's keys, the
\* second record lacking one of them
C12_Witness ==
    /\ ret.op = "generate_data_table"
    /\ Len(data_list) = 2 /\ ~columns.given
    /\ Len(data_list[1]) = 2
    /\ \E i \in 1..2 : ~HasKey(data_list[2], data_list[1][i].key)

----------------------------------------------------------------------------
(* Claims about the rows of a table and about large numbers                *)

\* the lines of the block a table record was parsed from
BlockLines(t) == SplitOn(t.raw_content, NL)

\* the k-th of the numbers in K, counting from the smallest
Nth(K, k) == CHOOSE x \in K : Cardinality({y \in K : y <= x}) = k

\* the later lines of a block with at least as many cells as headers
LinesWithEnoughCells(lines) ==
    {k \in 2..Len(lines) : Len(Cells(lines[k])) >= Len(Cells(lines[1]))}

\* those of them that have a cell at all
RowLines(lines) == {k \in LinesWithEnoughCells(lines) : Cells(lines[k]) # <<>>}

\* C13 as stated: the headers are the non-empty cells of the block's first
\* line; the rows are, in line order, exactly the later lines with at least
\* as many non-empty cells as headers; each row has one entry per header,
\* the i-th header mapped to the line's i-th non-empty cell.
C13_RowsOfEveryWideEnoughLine ==
    ret.op = "extract_tables" =>
        \A t \in 1..Len(ret.value) :
            LET lines == BlockLines(ret.value[t])
                headers == Cells(lines[1])
                K == LinesWithEnoughCells(lines)
                rows == ret.value[t].structured_data
            IN  /\ ret.value[t].metadata.headers = headers
                /\ Len(rows) = Cardinality(K)
                /\ \A j \in 1..Len(rows) :
                      /\ Cardinality(DOMAIN rows[j]) = Len(headers)
                      /\ \A i \in 1..Len(headers) :
                            /\ headers[i] \in DOMAIN rows[j]
                            /\ rows[j][headers[i]] = Cells(lines[Nth(K, j)])[i]

\* C13, amended: the headers are the non-empty cells of the block's first
\* line; the rows are, in line order, exactly the later lines that have a
\* non-empty cell and at least as many non-empty cells as headers; each row
\* has one entry per distinct header, mapped to the line's cell at the
\* position of the header's last occurrence in the header line.
C13_RowsOfNonEmptyWideEnoughLines ==
    ret.op = "extract_tables" =>
        \A t \in 1..Len(ret.value) :
            LET lines == BlockLines(ret.value[t])
                headers == Cells(lines[1])
                K == RowLines(lines)
                rows == ret.value[t].structured_data
            IN  /\ ret.value[t].metadata.headers = headers
                /\ Len(rows) = Cardinality(K)
                /\ \A j \in 1..Len(rows) :
                      /\ DOMAIN rows[j] = {headers[i] : i \in 1..Len(headers)}
                      /\ \A i \in 1..Len(headers) :
                            (\A i2 \in (i + 1)..Len(headers) : headers[i2] # headers[i])
                                => rows[j][headers[i]] = Cells(lines[Nth(K, j)])[i]

\* C13's case: a table from a block of two headers with a line that is
\* kept as a row, a line with too few cells and a line without a cell
C13_Witness ==
    /\ ret.op = "extract_tables"
    /\ \E t \in 1..Len(ret.value) :
          LET lines == BlockLines(ret.value[t])
              headers == Cells(lines[1])
          IN  /\ Len(headers) >= 2
              /\ RowLines(lines) # {}
              /\ \E k \in 2..Len(lines) : Len(Cells(lines[k])) = 1
              /\ \E k \in 2..Len(lines) : Cells(lines[k]) = <<>>

\* the unit of the first marker found, in the order yi, wan, bai wan, qian
\* wan, in the text that follows a number
UnitByPriority(following) ==
    LET found == <<Contains(following, <<"yi">>), Contains(following, <<"wan">>),
                   Contains(following, <<"bai", "wan">>),
                   Contains(following, <<"qian", "wan">>)>>
        units == << <<"yi", "yuan">>, <<"wan", "yuan">>, <<"bai", "wan">>,
                    <<"qian", "wan">> >>
    IN  IF \E k \in 1..4 : found[k]
        THEN units[MinOf({k \in 1..4 : found[k]})]
        ELSE <<>>

\* the number matches of the content that gave a statistic, in text order
AcceptedNumbers ==
    SelectSeq(NumberFinditer(content, 0), LAMBDA m : NumberStat(content, m) # <<>>)

\* the large-number statistics of the result, in order
NumericStats == SelectSeq(ret.value, IsNumeric)

UnitWhereNumberStartsBy(limit) ==
    ret.op = "extract_statistics" =>
        /\ Len(NumericStats) = Len(AcceptedNumbers)
        /\ \A j \in 1..Len(NumericStats) :
               AcceptedNumbers[j].start <= limit =>
                   NumericStats[j].unit =
                       UnitByPriority(Slice(content, AcceptedNumbers[j].end,
                                            AcceptedNumbers[j].end + 10))

\* C14: for every accepted large number, wherever in the text its token
\* occurs, the unit recorded is that of the first of the markers yi, wan,
\* bai wan, qian wan (in this order) found in the up to 10 characters that
\* follow the token, or empty when none occurs there.
C14_UnitFromFollowingText == UnitWhereNumberStartsBy(Len(content))

\* the same for the numbers that start within the first ContextWindow
\* characters of the content, where the context begins with the content
C14_HoldsNearTheStart == UnitWhereNumberStartsBy(ContextWindow)

\* C15: every statistic of confidence 0.75 in the output of
\* extract_statistics has a non-empty name, while a statistic of confidence
\* 0.8 is emitted for every percentage of the text, named or not.
C15_NamedLargeNumbers ==
    ret.op = "extract_statistics" =>
        /\ \A k \in 1..Len(ret.value) :
               ret.value[k].confidence = 75 => ret.value[k].name # <<>>
        /\ Cardinality({k \in 1..Len(ret.value) : ret.value[k].confidence = 80})
               = Cardinality(PercentSigns)

\* a number match without a percent sign and of at least 10,000
IsLargeNumber(m) ==
    LET num_str == Strip(Slice(content, m.start, m.g1end))
    IN  /\ ~HasChar(num_str, "%")
        /\ FloatAtLeast(ParseFloat(RemoveChar(num_str, ",")), LargeNumberThreshold)

\* C15's case: a percentage statistic without a name, from a text with a
\* large number that has no name either and gave no statistic
C15_Witness ==
    /\ ret.op = "extract_statistics"
    /\ \E k \in 1..Len(ret.value) :
          ret.value[k].confidence = 80 /\ ret.value[k].name = <<>>
    /\ LET ms == NumberFinditer(content, 0)
       IN  \E i \in 1..Len(ms) : IsLargeNumber(ms[i]) /\ NumberStat(content, ms[i]) = <<>>

----------------------------------------------------------------------------
(* Claims about the CitationManager                                        *)

\* every id listed in a reference entry is one of the ids
CitesOnly(refs, ids) ==
    \A r \in 1..Len(refs) : \A i \in 1..Len(refs[r].citations) :
        refs[r].citations[i] \in ids

\* the ids that the latest call removed
RemovedByCall == ret.before.ids \ DOMAIN citations

\* C16: if before a call merge_sources(primary_id, secondary_ids) every id
\* listed in every reference entry is the id of a stored citation, then so
\* it is after the call: no reference entry cites a removed id, each
\* reference that cited a removed secondary cites the primary, and the
\* primary citation (if it was stored) is still stored.
C16_MergeKeepsIntegrity ==
    (ret.op = "merge_sources" /\ CitesOnly(ret.before.references, ret.before.ids)) =>
        /\ CitesOnly(references, DOMAIN citations)
        /\ \A r \in 1..Len(references) :
              (\E sid \in RemovedByCall : InList(sid, ret.before.references[r].citations))
                  => InList(ret.args[1], references[r].citations)
        /\ ret.args[1] \in ret.before.ids => ret.args[1] \in DOMAIN citations

\* what does hold after a merge whose primary is stored and is not among
\* the secondaries: the primary is still stored, and every reference that
\* cited a removed secondary cites the primary (and still the secondary)
C16_PrimaryCitedAfterMerge ==
    (/\ ret.op = "merge_sources"
     /\ ret.args[1] \in ret.before.ids
     /\ ~InList(ret.args[1], ret.args[2])) =>
        /\ ret.args[1] \in DOMAIN citations
        /\ \A r \in 1..Len(references) :
              (\E sid \in RemovedByCall : InList(sid, ret.before.references[r].citations))
                  => InList(ret.args[1], references[r].citations)

\* C20: every stored citation's id is its dictionary key, stored ids are
\* pairwise distinct and smaller than next_id, next_id grows by exactly 1
\* with an add_source call and stays as it is with any other call, and an
\* id removed by merge_sources is not the id of a stored citation again.
C20_IdsNeverReused ==
    /\ \A k \in DOMAIN citations : citations[k].id = k /\ k < next_id
    /\ \A j, k \in DOMAIN citations : j # k => citations[j].id # citations[k].id
    /\ removed \cap DOMAIN citations = {}
    /\ ret.op = "add_source" =>
          /\ next_id = ret.before.next_id + 1
          /\ ret.value.id = ret.before.next_id
          /\ ret.value.id \notin ret.before.ids
    /\ ret.op \in {"add_reference", "merge_sources"} => next_id = ret.before.next_id

\* C20's case: an add_source call after a merge that removed a citation
C20_Witness ==
    /\ ret.op = "add_source"
    /\ removed # {}
    /\ \A k \in removed : k < ret.value.id

----------------------------------------------------------------------------
(* Claims about ResearchTask and ResearchManager                           *)

Verified(task) ==
    Cardinality({i \in 1..Len(task.sub_questions) : task.sub_questions[i].status = "VERIFIED"})

\* the progress p is the number n divided by d, times 100
ProgressIs(p, n, d) == p.num * d = n * p.den

\* C17: in every state of a ResearchTask reachable through add_sub_question
\* and mark_sub_question_status, progress is 100 times the number of
\* VERIFIED sub-questions divided by the number of sub-questions (0 when
\* there are none), and so lies in [0,100].
C17_ProgressIsVerifiedShare ==
    \A o \in 1..Len(issued) :
        /\ IF issued[o].sub_questions = <<>>
           THEN issued[o].progress.num = 0
           ELSE ProgressIs(issued[o].progress, Verified(issued[o]),
                           Len(issued[o].sub_questions))
        /\ 0 <= issued[o].progress.num /\ issued[o].progress.num <= issued[o].progress.den

\* what does hold: progress lies in [0,100], and is the VERIFIED share of
\* the sub-questions right after a mark_sub_question_status call that found
\* its sub-question
C17_ProgressRightAfterMark ==
    /\ \A o \in 1..Len(issued) :
          0 <= issued[o].progress.num /\ issued[o].progress.num <= issued[o].progress.den
    /\ (/\ ret.op = "mark_sub_question_status"
        /\ ret.value[1] \in DOMAIN tasks
        /\ ret.value[2] <= Len(issued[tasks[ret.value[1]]].sub_questions)) =>
           LET task == issued[tasks[ret.value[1]]]
           IN  ProgressIs(task.progress, Verified(task), Len(task.sub_questions))

\* C18: every create_task or decompose_question call stores a distinct
\* task: after k calls, at whatever times, the manager holds k tasks, and
\* every task returned earlier is the one get_task returns for its id.
C18_EveryTaskStored ==
    /\ Cardinality(DOMAIN tasks) = Len(issued)
    /\ \A o \in 1..Len(issued) :
          issued[o].id \in DOMAIN tasks /\ tasks[issued[o].id] = o

\* what does hold: the tasks made in seconds of their own are stored, and a
\* task id gives the latest task made in its second
C18_LatestTaskOfEachSecond ==
    /\ Cardinality(DOMAIN tasks) = Cardinality({issued[o].id : o \in 1..Len(issued)})
    /\ \A o \in 1..Len(issued) :
          /\ issued[o].id \in DOMAIN tasks
          /\ tasks[issued[o].id] =
                 CHOOSE x \in 1..Len(issued) :
                     /\ issued[x].id = issued[o].id
                     /\ \A y \in 1..Len(issued) : issued[y].id = issued[o].id => y <= x

----------------------------------------------------------------------------
(* Claims about the ReportGenerator                                        *)

\* the titles of the level-2 headings of a text, in order
HeadingTitles(text) ==
    LET lines == SplitOn(text, NL)
        heads == SelectSeq(lines, LAMBDA l : Len(l) > 3 /\ SubSeq(l, 1, 3) = <<"#", "#", " ">>)
    IN  [i \in 1..Len(heads) |-> SubSeq(heads[i], 4, Len(heads[i]))]

\* the titles of the sections that the arguments call for, in the order
\* conclusions, analysis, data tables, quality assessment, references
TitlesFor(a) ==
    (IF a.conclusions # <<>> THEN << <<"he xin jie lun">> >> ELSE <<>>)
    \o (IF a.analysis # <<>> THEN << <<"shen du fen xi">> >> ELSE <<>>)
    \o (IF a.data_tables # <<>> THEN << <<"shu ju zhi cheng">> >> ELSE <<>>)
    \o (IF a.quality_assessment # <<>> THEN << <<"zhi liang ping gu">> >> ELSE <<>>)
    \o (IF a.references # <<>> THEN << <<"can kao lai yuan">> >> ELSE <<>>)

\* C19: the report of a generate_report call holds, after the overview of
\* its header, only the sections built from that call's arguments, in the
\* order conclusions, analysis, data tables, quality assessment,
\* references; so two calls with the same arguments on one instance return
\* the same report.
C19_ReportOfItsArguments ==
    \A k \in 1..Len(reports) :
        /\ HeadingTitles(reports[k].report)
               = << <<"yan jiu gai shu">> >> \o TitlesFor(reports[k].args)
        /\ \A j \in 1..(k - 1) :
               reports[j].args = reports[k].args => reports[j].report = reports[k].report

\* what does hold: a report holds the sections of every call made on the
\* instance so far, oldest first
C19_ReportOfAllCalls ==
    \A k \in 1..Len(reports) :
        HeadingTitles(reports[k].report)
            = << <<"yan jiu gai shu">> >>
                  \o Concat([j \in 1..k |-> TitlesFor(reports[j].args)])

====
